---- MODULE Spec2Model ----
(***************************************************************************)
(* Model of the incremental synchronization engine of codebase-search      *)
(* (vector_db.rs: init_session / restore_session), the persisted snapshot  *)
(* (file_state.rs) and the codebase walk that feeds them (symbol.rs).      *)
(*                                                                         *)
(* Point identifiers (generate_point_id) and the hierarchical chunker      *)
(* (chunker.rs) with the symbol extraction it re-invokes are pure          *)
(* functions: each has a specification of its own, SpecPointId and         *)
(* SpecChunker, that draws the inputs and applies the function.  So have   *)
(* the one-chunk-per-symbol mode (SpecSimple), the extraction of Rust,     *)
(* Python and Go files followed by chunking with the default options       *)
(* (SpecExtract) and the batched embedding of chunks (SpecEmbed).          *)
(*                                                                         *)
(* The file system, the vector store and the embedding provider are the    *)
(* environment: their failures are nondeterministic outcomes of the calls  *)
(* the code makes, and files may be edited by other processes at any time. *)
(***************************************************************************)
EXTENDS Integers, Sequences, FiniteSets, TLC

(***************************************************************************)
(* Bounds                                                                  *)
(***************************************************************************)
\* length of a behaviour: restore_session invocations plus edits of the tree
\* by other processes
MaxEvents == 4

\* the supported source files that may exist under the root
Files == {"a.rs", "b.py"}
\* the versions of a file's text; version n has n lines in its first symbol
Contents == {1, 2}
\* modification times: the clock advances with every edit
Times == 0..MaxEvents

(***************************************************************************)
(* Paths.  A path string is either relative to the root or the root joined *)
(* with a relative name; the two are different strings.                    *)
(***************************************************************************)
Paths == [abs : BOOLEAN, name : Files]

\* root_path.join(file_path)
Join(rel) == [abs |-> TRUE, name |-> rel.name]

\* path.strip_prefix(root_path).unwrap_or(path).to_string_lossy().to_string()
StripPrefix(p) == [abs |-> FALSE, name |-> p.name]

\* entry.path() of the walker built on root_path
WalkPath(f) == [abs |-> TRUE, name |-> f]

\* file_path.as_bytes()
PathBytes(p) ==
    LET nameBytes == IF p.name = "a.rs" THEN <<"a", ".", "r", "s">>
                                        ELSE <<"b", ".", "p", "y">>
    IN IF p.abs THEN <<"/", "R", "/">> \o nameBytes ELSE nameBytes

\* usize::to_string().as_bytes(), decimal ASCII digits
RECURSIVE Digits(_)
Digits(n) ==
    LET d == <<"0", "1", "2", "3", "4", "5", "6", "7", "8", "9">>
    IN IF n < 10 THEN <<d[n + 1]>> ELSE Digits(n \div 10) \o <<d[(n % 10) + 1]>>

\* symbol_name.as_bytes(); the names of the model are one byte long, but "fg"
NameBytes(s) == IF s = "fg" THEN <<"f", "g">> ELSE <<s>>

\* variant: the symbol name is not part of what is hashed
generate_point_id_without_name(file_path, start_line, end_line, symbol_name) ==
    PathBytes(file_path) \o Digits(start_line) \o Digits(end_line)

\* The point id is the SHA-256 of the concatenated bytes, cut to 128 bits and
\* laid out 8-4-4-4-12; the digest is collision free on the model's inputs, so
\* the id is represented by the byte string that is hashed.
generate_point_id(file_path, start_line, end_line, symbol_name) ==
    PathBytes(file_path) \o Digits(start_line) \o Digits(end_line)
        \o NameBytes(symbol_name)

(***************************************************************************)
(* FileState and the snapshot                                              *)
(***************************************************************************)
\* format!("{:x}", md5::compute(content)): collision free on the model's contents
content_md5(content) == <<"md5", content>>

\* FileState::new(path, last_modified) of a file on disk
FileState(file) ==
    [content_md5 |-> content_md5(file.content), last_modified |-> file.mtime]

NoFile == [present |-> FALSE, content |-> 0, mtime |-> 0]
DiskFiles == {NoFile} \cup [present : {TRUE}, content : Contents, mtime : Times]

Present(d) == {f \in Files : d[f].present}

\* collect_supported_file_states: keys are the walker's paths with the root
\* stripped, values the fingerprint of the bytes on disk at this moment
collect_supported_file_states(d) ==
    LET keys == {StripPrefix(WalkPath(f)) : f \in Present(d)}
    IN [k \in keys |-> FileState(d[k.name])]

\* the file_state_map parse_codebase builds: keys are the walker's paths
parse_codebase_states(d) ==
    LET keys == {WalkPath(f) : f \in Present(d)}
    IN [k \in keys |-> FileState(d[k.name])]

NoSnapshot == [exists |-> FALSE, file_states |-> <<>>]

\* CodebaseState { file_states }.to_file(None) followed by a successful write
Written(states) == [exists |-> TRUE, file_states |-> states]

(***************************************************************************)
(* Change classification of restore_session (step 3)                       *)
(***************************************************************************)
\* variant: the whole FileState is compared, last_modified included
ModifiedFiles_by_state(saved, current) ==
    {k \in DOMAIN current : k \in DOMAIN saved /\ current[k] # saved[k]}

\* for (file_path, current_state) in &current_file_states: Some(saved) and
\* content_md5 differs
ModifiedFiles(saved, current) ==
    {k \in DOMAIN current :
        /\ k \in DOMAIN saved
        /\ current[k].content_md5 # saved[k].content_md5}

\* variant: the two maps are swapped
AddedFiles_swapped(saved, current) == {k \in DOMAIN saved : k \notin DOMAIN current}

\* ... None => added
AddedFiles(saved, current) == {k \in DOMAIN current : k \notin DOMAIN saved}

\* variant: the seen_files test is missing
DeletedFiles_unfiltered(saved, current) == DOMAIN saved

\* for file_path in saved_state.file_states.keys(): !seen_files.contains
DeletedFiles(saved, current) == {k \in DOMAIN saved : k \notin DOMAIN current}

(***************************************************************************)
(* Chunks and points                                                       *)
(***************************************************************************)
\* The symbols extracted from a file: their names and line ranges depend on
\* the content, so a modified file yields chunks at shifted positions.
SymbolsOf(content) ==
    {[symbol_name |-> "f", start_line |-> 1, end_line |-> content]}
    \cup (IF content > 1
          THEN {[symbol_name |-> "g", start_line |-> content + 1,
                 end_line |-> content + 1]}
          ELSE {})

\* the embedded chunks of one file: parse_file(path) keeps the path it was given
ChunksOf(path, content) ==
    {[file_path |-> path, start_line |-> s.start_line, end_line |-> s.end_line,
      symbol_name |-> s.symbol_name, content |-> content] : s \in SymbolsOf(content)}

\* chunk_codefile(&full_file_path, opts): extraction, chunking and embedding of
\* the file as it is on disk when the call is made
chunk_codefile(full_file_path, d) == ChunksOf(full_file_path, d[full_file_path.name].content)

\* the chunks of chunk_codebase: every walked file that parsed
chunk_codebase(d, unparsed) ==
    UNION {ChunksOf(WalkPath(f), d[f].content) : f \in Present(d) \ unparsed}

\* PointStruct::new(point_id, embedding, payload) of one chunk
PointOf(chunk) ==
    LET file_path_relative == StripPrefix(chunk.file_path)
    IN [id |-> generate_point_id(file_path_relative, chunk.start_line,
                                 chunk.end_line, chunk.symbol_name),
        file_path |-> file_path_relative,
        start_line |-> chunk.start_line,
        end_line |-> chunk.end_line,
        symbol_name |-> chunk.symbol_name,
        content |-> chunk.content]

\* upsert_points: a point replaces the stored point of the same id
UpsertPoints(points, new) ==
    {p \in points : \A q \in new : q.id # p.id} \cup new

\* delete_points with Filter::should(matches("file_path", path) for each path)
DeletePoints(points, files_to_delete) ==
    {p \in points : p.file_path \notin files_to_delete}

NoCollection == [exists |-> FALSE, points |-> {}]

(***************************************************************************)
(* State                                                                   *)
(***************************************************************************)
VARIABLES
    disk,                 \* the supported files under the root
    dotIndex,             \* whether <root>/.rua.index.json exists
    snapshot,             \* <root>/rua.index.json
    collection,           \* the collection of the root in the vector store
    pc,                   \* position of the running restore_session
    mode,                 \* branch the run took: init, reconcile, uptodate
    result,               \* what the last run returned: Ok, Err, none while running
    saved_state,
    current_file_states,
    added_files,
    modified_files,
    deleted_files,
    todo,                 \* files_to_process not yet handed to chunk_codefile
    all_chunks,
    calls,                \* store calls issued by the run, in order
    runNo,
    edits,
    snapAtStart,          \* the snapshot when the run started
    edited,               \* a file changed since the run started
    prevQuiet,            \* the previous run returned Ok and no file changed since it started
    prevMode,             \* branch of the previous run
    everInitOk,           \* some init_session has returned Ok
    attempted,            \* files handed to chunk_codefile in this run
    skipped,              \* files whose chunk_codefile returned Err in this run
    created,              \* this run created the collection
    cleanup,              \* outcome of cleanup_collection in this run
    failedAt,             \* the step whose error the run returned
    quads,                \* two (file_path, start_line, end_line, symbol_name)
    ids,                  \* their point ids, once generate_point_id was applied
    source,               \* the syntax tree of the text of one source file
    source_path,          \* the name of that file
    parsed,               \* what parse_file returned for it: Ok, Err, none before
    first_row,            \* the row of the file at which its first item starts
    options,              \* the ChunkingOptions
    failing,              \* names of the symbols whose text cannot be re-parsed
    symbols,              \* what parse_file extracted from the file
    per_symbol,           \* chunk_symbol_recursive(symbol, 0) of each symbol
    chunks,               \* what chunk_symbols returned
    to_embed,             \* the chunks handed to embed_chunks
    batch_size,           \* config.batch_size
    consumed,             \* how many chunks embed_chunks has sent in batches
    embedded_chunks,      \* the EmbeddedChunks collected so far
    embed_pc,             \* position of embed_chunks: idle, loop, Ok, Err
    reordered             \* some response listed its vectors out of index order

storeVars == <<collection, calls>>
diffVars == <<saved_state, current_file_states, added_files, modified_files, deleted_files>>
workVars == <<todo, all_chunks, attempted, skipped>>
historyVars == <<runNo, snapAtStart, prevQuiet, prevMode>>
initVars == <<created, cleanup>>

\* the state of the synchronization engine
syncVars == <<disk, dotIndex, snapshot, collection, pc, mode, result,
              saved_state, current_file_states, added_files, modified_files,
              deleted_files, todo, all_chunks, calls, runNo, edits, snapAtStart,
              edited, prevQuiet, prevMode, everInitOk, attempted, skipped, created,
              cleanup, failedAt>>
\* the inputs and outputs of the pure functions checked on their own
pointVars == <<quads, ids>>
chunkVars == <<source, source_path, parsed, first_row, options, failing, symbols,
              per_symbol, chunks>>
embedVars == <<to_embed, batch_size, consumed, embedded_chunks, embed_pc, reordered>>
pureVars == <<pointVars, chunkVars, embedVars>>

vars == <<syncVars, pureVars>>

\* no pure function is under evaluation
PointIdle == quads = <<>> /\ ids = <<>>
ChunkerIdle ==
    /\ source = <<>>
    /\ source_path = ""
    /\ parsed = "none"
    /\ first_row = 0
    /\ options = <<>>
    /\ failing = {}
    /\ symbols = <<>>
    /\ per_symbol = <<>>
    /\ chunks = <<>>

EmbedIdle ==
    /\ to_embed = <<>>
    /\ batch_size = 0
    /\ consumed = 0
    /\ embedded_chunks = <<>>
    /\ embed_pc = "idle"
    /\ reordered = FALSE

SyncInit ==
    /\ disk \in [Files -> {NoFile, [present |-> TRUE, content |-> 1, mtime |-> 0]}]
    /\ dotIndex = FALSE
    /\ snapshot = NoSnapshot
    /\ collection = NoCollection
    /\ pc = "idle"
    /\ mode = "none"
    /\ result = "none"
    /\ saved_state = <<>>
    /\ current_file_states = <<>>
    /\ added_files = {}
    /\ modified_files = {}
    /\ deleted_files = {}
    /\ todo = {}
    /\ all_chunks = {}
    /\ calls = <<>>
    /\ runNo = 0
    /\ edits = 0
    /\ snapAtStart = NoSnapshot
    /\ edited = FALSE
    /\ prevQuiet = FALSE
    /\ prevMode = "none"
    /\ everInitOk = FALSE
    /\ attempted = {}
    /\ skipped = {}
    /\ created = FALSE
    /\ cleanup = "none"
    /\ failedAt = "none"

Init == SyncInit /\ PointIdle /\ ChunkerIdle /\ EmbedIdle

\* the engine at rest on an empty root
SyncIdle == SyncInit /\ disk = [f \in Files |-> NoFile]

Call(op, paths, ok) == [op |-> op, paths |-> paths, ok |-> ok]

(***************************************************************************)
(* Environment: other processes edit the tree at any time                  *)
(***************************************************************************)
\* An edit shows to the program at its next read of the tree, so edits are
\* taken right before the steps that read it (and between runs).
EditPoints == {"idle", "init_parse", "init_save", "process"}

\* a file is created or rewritten; its modification time is the time of the edit
EnvWrite(f, c) ==
    /\ pc \in EditPoints
    /\ runNo + edits < MaxEvents
    /\ ~(disk[f].present /\ disk[f].content = c)
    /\ disk' = [disk EXCEPT ![f] = [present |-> TRUE, content |-> c, mtime |-> edits + 1]]
    /\ edits' = edits + 1
    /\ edited' = TRUE
    /\ UNCHANGED <<dotIndex, snapshot, pc, mode, result, everInitOk, failedAt>>
    /\ UNCHANGED <<storeVars, diffVars, workVars, historyVars, initVars>>
    /\ UNCHANGED pureVars

\* a file is touched: same bytes, new modification time
EnvTouch(f) ==
    /\ pc \in EditPoints
    /\ runNo + edits < MaxEvents
    /\ disk[f].present
    /\ disk' = [disk EXCEPT ![f].mtime = edits + 1]
    /\ edits' = edits + 1
    /\ edited' = TRUE
    /\ UNCHANGED <<dotIndex, snapshot, pc, mode, result, everInitOk, failedAt>>
    /\ UNCHANGED <<storeVars, diffVars, workVars, historyVars, initVars>>
    /\ UNCHANGED pureVars

\* a file is removed
EnvDelete(f) ==
    /\ pc \in EditPoints
    /\ runNo + edits < MaxEvents
    /\ disk[f].present
    /\ disk' = [disk EXCEPT ![f] = NoFile]
    /\ edits' = edits + 1
    /\ edited' = TRUE
    /\ UNCHANGED <<dotIndex, snapshot, pc, mode, result, everInitOk, failedAt>>
    /\ UNCHANGED <<storeVars, diffVars, workVars, historyVars, initVars>>
    /\ UNCHANGED pureVars

\* something creates <root>/.rua.index.json; the program itself never does
EnvCreateIndexMarker ==
    /\ pc = "idle"
    /\ ~dotIndex
    /\ dotIndex' = TRUE
    /\ UNCHANGED <<disk, snapshot, pc, mode, result, edits, edited, everInitOk, failedAt>>
    /\ UNCHANGED <<storeVars, diffVars, workVars, historyVars, initVars>>
    /\ UNCHANGED pureVars

(***************************************************************************)
(* restore_session                                                         *)
(***************************************************************************)
\* what every invocation resets: a fresh process
Begin ==
    /\ pc = "idle"
    /\ runNo + edits < MaxEvents
    /\ runNo' = runNo + 1
    /\ snapAtStart' = snapshot
    /\ prevQuiet' = (result = "Ok" /\ ~edited)
    /\ prevMode' = mode
    /\ edited' = FALSE
    /\ calls' = <<>>
    /\ todo' = {}
    /\ all_chunks' = {}
    /\ attempted' = {}
    /\ skipped' = {}
    /\ created' = FALSE
    /\ cleanup' = "none"
    /\ UNCHANGED <<disk, dotIndex, snapshot, collection, edits, everInitOk>>
    /\ UNCHANGED pureVars

NoDiff ==
    /\ saved_state' = <<>>
    /\ current_file_states' = <<>>
    /\ added_files' = {}
    /\ modified_files' = {}
    /\ deleted_files' = {}

\* fs::exists(<root>/.rua.index.json) is Ok(false): init_session is called
RestoreNoIndex ==
    /\ Begin
    /\ ~dotIndex
    /\ mode' = "init"
    /\ pc' = "init_check"
    /\ result' = "none"
    /\ failedAt' = "none"
    /\ NoDiff

\* Ok(true), and set_current_dir(root)? or from_file(None)? returns the error
RestoreLoadFails ==
    /\ Begin
    /\ dotIndex
    /\ \/ failedAt' = "set_current_dir"
       \/ /\ ~snapshot.exists
          /\ failedAt' = "from_file"
    /\ mode' = "none"
    /\ pc' = "done"
    /\ result' = "Err"
    /\ NoDiff

\* Ok(true): steps 1 to 3, load the snapshot, fingerprint the tree, classify
RestoreDiff ==
    /\ Begin
    /\ dotIndex
    /\ snapshot.exists
    /\ LET saved == snapshot.file_states
           current == collect_supported_file_states(disk)
           added == AddedFiles(saved, current)
           modified == ModifiedFiles(saved, current)
           deleted == DeletedFiles(saved, current)
       IN /\ saved_state' = saved
          /\ current_file_states' = current
          /\ added_files' = added
          /\ modified_files' = modified
          /\ deleted_files' = deleted
          /\ failedAt' = "none"
          /\ IF added = {} /\ modified = {} /\ deleted = {}
             THEN /\ mode' = "uptodate"
                  /\ pc' = "done"
                  /\ result' = "Ok"
             ELSE /\ mode' = "reconcile"
                  /\ pc' = "delete"
                  /\ result' = "none"

\* the run returns
Return(res, step) ==
    /\ pc' = "done"
    /\ result' = res
    /\ failedAt' = step

\* variant: only the deleted files are purged
files_to_delete_without_modified == deleted_files

\* deleted_files.iter().chain(modified_files.iter())
files_to_delete == deleted_files \cup modified_files

\* variant: every current file is re-indexed
files_to_process_everything == DOMAIN current_file_states

\* added_files.iter().chain(modified_files.iter())
files_to_process == added_files \cup modified_files

\* step 4, first half: one delete_points call for the deleted and modified files
ReconcileDelete ==
    /\ pc = "delete"
    /\ IF files_to_delete = {}
       THEN /\ pc' = "process"
            /\ todo' = files_to_process
            /\ UNCHANGED <<storeVars, result, failedAt>>
       ELSE \E ok \in {b \in BOOLEAN : b => collection.exists} :
            /\ calls' = Append(calls, Call("delete_points", files_to_delete, ok))
            /\ IF ok
               THEN /\ collection' = [collection EXCEPT
                                        !.points = DeletePoints(@, files_to_delete)]
                    /\ pc' = "process"
                    /\ todo' = files_to_process
                    /\ UNCHANGED <<result, failedAt>>
               ELSE /\ Return("Err", "delete_points")
                    /\ UNCHANGED <<collection, todo>>
    /\ UNCHANGED <<disk, dotIndex, snapshot, mode, edits, edited, everInitOk>>
    /\ UNCHANGED <<diffVars, historyVars, initVars, all_chunks, attempted, skipped>>
    /\ UNCHANGED pureVars

\* variant: the error of one file is returned
ChunkFailed_abort(file_path) ==
    /\ skipped' = skipped \cup {file_path}
    /\ Return("Err", "chunk_codefile")
    /\ UNCHANGED all_chunks

\* Err(e) => { warn!(...); continue; }: the file is skipped, the loop goes on
ChunkFailed(file_path) ==
    /\ skipped' = skipped \cup {file_path}
    /\ UNCHANGED <<all_chunks, pc, result, failedAt>>

\* one iteration of the loop over files_to_process: chunk_codefile of one file,
\* which fails when the file cannot be read, parsed or embedded
ReconcileChunk(file_path) ==
    /\ pc = "process"
    /\ file_path \in todo
    /\ todo' = todo \ {file_path}
    /\ attempted' = attempted \cup {file_path}
    /\ LET full_file_path == Join(file_path)
       IN \E ok \in {b \in BOOLEAN : b => disk[file_path.name].present} :
            IF ok
            THEN /\ all_chunks' = all_chunks \cup chunk_codefile(full_file_path, disk)
                 /\ UNCHANGED <<skipped, pc, result, failedAt>>
            ELSE ChunkFailed(file_path)
    /\ UNCHANGED <<disk, dotIndex, snapshot, mode, edits, edited, everInitOk>>
    /\ UNCHANGED <<storeVars, diffVars, historyVars, initVars>>
    /\ UNCHANGED pureVars

\* variant: the error of the upsert is only logged
UpsertFailed_swallowed ==
    /\ pc' = "save"
    /\ UNCHANGED <<result, failedAt, collection>>

\* upsert_points(...).await?: the error is returned
UpsertFailed ==
    /\ Return("Err", "upsert_points")
    /\ UNCHANGED collection

\* after the loop: payload conversion (a chunk that fails is dropped) and one
\* upsert_points call, unless there is nothing to upsert
ReconcileUpsert ==
    /\ pc = "process"
    /\ todo = {}
    /\ IF all_chunks = {}
       THEN /\ pc' = "save"
            /\ UNCHANGED <<storeVars, result, failedAt>>
       ELSE \E dropped \in SUBSET all_chunks,
               ok \in {b \in BOOLEAN : b => collection.exists} :
            LET points == {PointOf(c) : c \in all_chunks \ dropped}
            IN /\ calls' = Append(calls,
                       Call("upsert_points", {p.file_path : p \in points}, ok))
               /\ IF ok
                  THEN /\ collection' = [collection EXCEPT
                                           !.points = UpsertPoints(@, points)]
                       /\ pc' = "save"
                       /\ UNCHANGED <<result, failedAt>>
                  ELSE UpsertFailed
    /\ UNCHANGED <<disk, dotIndex, snapshot, mode, edits, edited, everInitOk>>
    /\ UNCHANGED <<diffVars, workVars, historyVars, initVars>>
    /\ UNCHANGED pureVars

\* step 5: new_state.to_file(None)?
ReconcileSave ==
    /\ pc = "save"
    /\ \/ /\ snapshot' = Written(current_file_states)
          /\ Return("Ok", "none")
       \/ /\ Return("Err", "to_file")
          /\ UNCHANGED snapshot
    /\ UNCHANGED <<disk, dotIndex, mode, edits, edited, everInitOk>>
    /\ UNCHANGED <<storeVars, diffVars, workVars, historyVars, initVars>>
    /\ UNCHANGED pureVars

(***************************************************************************)
(* init_session                                                            *)
(***************************************************************************)
\* cleanup_collection(collection_id, reason) and the return of the error: the
\* delete_collection call may itself fail, which is only logged
CleanupAndFail(issued, step) ==
    \E ok \in BOOLEAN :
        /\ calls' = Append(issued, Call("delete_collection", {}, ok))
        /\ collection' = IF ok THEN NoCollection ELSE collection
        /\ cleanup' = IF ok THEN "ok" ELSE "failed"
        /\ Return("Err", step)

\* collection_info: an existing collection is deleted first; a collection_info
\* error is taken for "does not exist"
InitCheck ==
    /\ pc = "init_check"
    /\ \/ /\ collection.exists
          /\ \E ok \in BOOLEAN :
               /\ calls' = Append(calls, Call("delete_collection", {}, ok))
               /\ IF ok
                  THEN /\ collection' = NoCollection
                       /\ pc' = "init_create"
                       /\ UNCHANGED <<result, failedAt>>
                  ELSE /\ Return("Err", "delete_collection")
                       /\ UNCHANGED collection
       \/ /\ pc' = "init_create"
          /\ UNCHANGED <<storeVars, result, failedAt>>
    /\ UNCHANGED <<disk, dotIndex, snapshot, mode, edits, edited, everInitOk>>
    /\ UNCHANGED <<diffVars, workVars, historyVars, initVars>>
    /\ UNCHANGED pureVars

\* create_collection(...).await.map_err(...)?
InitCreate ==
    /\ pc = "init_create"
    /\ \E ok \in {b \in BOOLEAN : b => ~collection.exists} :
         /\ calls' = Append(calls, Call("create_collection", {}, ok))
         /\ IF ok
            THEN /\ collection' = [exists |-> TRUE, points |-> {}]
                 /\ created' = TRUE
                 /\ pc' = "init_parse"
                 /\ UNCHANGED <<result, failedAt>>
            ELSE /\ Return("Err", "create_collection")
                 /\ UNCHANGED <<collection, created>>
    /\ UNCHANGED <<disk, dotIndex, snapshot, mode, edits, edited, everInitOk, cleanup>>
    /\ UNCHANGED <<diffVars, workVars, historyVars>>
    /\ UNCHANGED pureVars

\* chunk_codebase, first part: parse_codebase walks the tree, extracts the
\* symbols of every file that parses and writes the state file into the
\* current directory of the process (cwd: the root or some other directory;
\* init_session changes it to the root only later); then the symbols are chunked
InitParse ==
    /\ pc = "init_parse"
    /\ \E unparsed \in SUBSET Present(disk), written \in BOOLEAN,
            cwd \in {"root", "other"} :
         IF written
         THEN /\ snapshot' = IF cwd = "root"
                             THEN Written(parse_codebase_states(disk))
                             ELSE snapshot
              /\ all_chunks' = chunk_codebase(disk, unparsed)
              /\ pc' = "init_embed"
              /\ UNCHANGED <<storeVars, cleanup, result, failedAt>>
         ELSE /\ CleanupAndFail(calls, "chunk_codebase")
              /\ UNCHANGED <<snapshot, all_chunks>>
    /\ UNCHANGED <<disk, dotIndex, mode, edits, edited, everInitOk, created>>
    /\ UNCHANGED <<diffVars, historyVars, todo, attempted, skipped>>
    /\ UNCHANGED pureVars

\* chunk_codebase, second part: embed_chunks of all chunks
InitEmbed ==
    /\ pc = "init_embed"
    /\ \/ /\ pc' = "init_upsert"
          /\ UNCHANGED <<storeVars, cleanup, result, failedAt>>
       \/ CleanupAndFail(calls, "chunk_codebase")
    /\ UNCHANGED <<disk, dotIndex, snapshot, mode, edits, edited, everInitOk, created>>
    /\ UNCHANGED <<diffVars, workVars, historyVars>>
    /\ UNCHANGED pureVars

\* payload conversion of every chunk (one failure fails the run) and the bulk
\* upsert_points call
InitUpsert ==
    /\ pc = "init_upsert"
    /\ \/ CleanupAndFail(calls, "payload")
       \/ \E ok \in BOOLEAN :
            LET points == {PointOf(c) : c \in all_chunks}
                issued == Append(calls,
                            Call("upsert_points", {p.file_path : p \in points}, ok))
            IN IF ok
               THEN /\ calls' = issued
                    /\ collection' = [collection EXCEPT
                                        !.points = UpsertPoints(@, points)]
                    /\ pc' = "init_save"
                    /\ UNCHANGED <<cleanup, result, failedAt>>
               ELSE CleanupAndFail(issued, "upsert_points")
    /\ UNCHANGED <<disk, dotIndex, snapshot, mode, edits, edited, everInitOk, created>>
    /\ UNCHANGED <<diffVars, workVars, historyVars>>
    /\ UNCHANGED pureVars

\* collect_supported_file_states, set_current_dir(root), state.to_file(None)
InitSave ==
    /\ pc = "init_save"
    /\ \/ /\ CleanupAndFail(calls, "set_current_dir")
          /\ UNCHANGED <<snapshot, everInitOk>>
       \/ /\ CleanupAndFail(calls, "to_file")
                /\ UNCHANGED <<snapshot, everInitOk>>
       \/ /\ snapshot' = Written(collect_supported_file_states(disk))
                /\ everInitOk' = TRUE
          /\ Return("Ok", "none")
          /\ UNCHANGED <<storeVars, cleanup>>
    /\ UNCHANGED <<disk, dotIndex, mode, edits, edited, created>>
    /\ UNCHANGED <<diffVars, workVars, historyVars>>
    /\ UNCHANGED pureVars

\* the process exits: what the run held in memory is gone, what it wrote stays
Exit ==
    /\ pc = "done"
    /\ pc' = "idle"
    /\ NoDiff
    /\ todo' = {}
    /\ all_chunks' = {}
    /\ attempted' = {}
    /\ skipped' = {}
    /\ calls' = <<>>
    /\ created' = FALSE
    /\ cleanup' = "none"
    /\ failedAt' = "none"
    /\ snapAtStart' = NoSnapshot
    /\ prevQuiet' = FALSE
    /\ prevMode' = "none"
    /\ UNCHANGED <<disk, dotIndex, snapshot, collection, mode, result, runNo,
                   edits, edited, everInitOk>>
    /\ UNCHANGED pureVars

(***************************************************************************)
(* Specification                                                           *)
(***************************************************************************)
Next ==
    \/ \E f \in Files, c \in Contents : EnvWrite(f, c)
    \/ \E f \in Files : EnvTouch(f)
    \/ \E f \in Files : EnvDelete(f)
    \/ EnvCreateIndexMarker
    \/ RestoreNoIndex
    \/ RestoreLoadFails
    \/ RestoreDiff
    \/ ReconcileDelete
    \/ \E file_path \in Paths : ReconcileChunk(file_path)
    \/ ReconcileUpsert
    \/ ReconcileSave
    \/ InitCheck
    \/ InitCreate
    \/ InitParse
    \/ InitEmbed
    \/ InitUpsert
    \/ InitSave
    \/ Exit

Spec == Init /\ [][Next]_vars

TypeOK ==
    /\ disk \in [Files -> DiskFiles]
    /\ dotIndex \in BOOLEAN
    /\ snapshot.exists \in BOOLEAN
    /\ collection.exists \in BOOLEAN
    /\ pc \in {"idle", "done", "delete", "process", "save", "init_check", "init_create",
               "init_parse", "init_embed", "init_upsert", "init_save"}
    /\ mode \in {"none", "init", "reconcile", "uptodate"}
    /\ result \in {"none", "Ok", "Err"}
    /\ runNo \in 0..MaxEvents
    /\ edits \in 0..MaxEvents

(***************************************************************************)
(* generate_point_id on its own: two quadruples and their identifiers      *)
(***************************************************************************)
\* the paths the payloads carry
PointPaths == {StripPrefix(WalkPath(f)) : f \in Files}
\* line numbers of one, two and three digits
LineNumbers == {1, 2, 11, 12, 111}
PointNames == {"f", "g", "fg"}

\* the (file_path, start_line, end_line, symbol_name) of a chunk
Quadruples ==
    {q \in [file_path : PointPaths, start_line : LineNumbers,
            end_line : LineNumbers, symbol_name : PointNames] :
        q.end_line >= q.start_line}

PointIdOf(q) ==
    generate_point_id(q.file_path, q.start_line, q.end_line, q.symbol_name)

InitPointId ==
    /\ SyncIdle
    /\ ChunkerIdle
    /\ EmbedIdle
    /\ quads \in Quadruples \X Quadruples
    /\ ids = <<>>

\* the point ids of the two chunks are computed, as for the points of one upsert
GeneratePointIds ==
    /\ quads # <<>>
    /\ ids = <<>>
    /\ ids' = <<PointIdOf(quads[1]), PointIdOf(quads[2])>>
    /\ UNCHANGED <<quads, syncVars, chunkVars, embedVars>>

NextPointId == GeneratePointIds

SpecPointId == InitPointId /\ [][NextPointId]_vars

(***************************************************************************)
(* Symbol extraction and the hierarchical chunker on their own.            *)
(* A text is represented by its syntax tree: a node is a symbol-bearing    *)
(* item with a name, a kind, the lines it has besides those of its         *)
(* children, and the items nested in it, one after the other from its      *)
(* second line on.                                                         *)
(***************************************************************************)
\* deepest max_recursion_depth of the options tried
MaxRecursion == 2

SymbolNames == {"a", "b"}
\* SymbolKind of the items that hold others, and of those that hold none
HolderKinds == {"Impl", "Function"}
LeafNodes == [name : SymbolNames, kind : {"Function"}, own : {1, 3}, children : {<<>>}]

\* an item with nested items: a header line, the nested items, a closing line
Holder(name, kind, children) ==
    [name |-> name, kind |-> kind, own |-> 2, children |-> children]

OneOrTwo(S) == {<<x>> : x \in S} \cup {<<x, y>> : x \in S, y \in S}

Level1Nodes ==
    {Holder(n, k, c) : n \in SymbolNames, k \in HolderKinds, c \in OneOrTwo(LeafNodes)}

\* the items that stand next to an item with nested items
SiblingNodes == {l \in LeafNodes : l.name = "b"}

Level2Nodes ==
    {Holder("a", k, c) :
        k \in HolderKinds,
        c \in {<<n>> : n \in Level1Nodes}
              \cup {<<l, n>> : l \in SiblingNodes, n \in Level1Nodes}
              \cup {<<n, l>> : n \in Level1Nodes, l \in SiblingNodes}}

SourceNodes == LeafNodes \cup Level1Nodes \cup Level2Nodes

ChunkingOptions ==
    [max_lines_per_chunk : {2, 4}, min_lines_per_chunk : {1, 2},
     max_recursion_depth : 0..MaxRecursion]

\* number of lines of the text of a node
RECURSIVE NodeLines(_), ChildrenLines(_)
NodeLines(node) == node.own + ChildrenLines(node.children)
ChildrenLines(children) ==
    IF children = <<>> THEN 0
    ELSE NodeLines(Head(children)) + ChildrenLines(Tail(children))

\* Option<String>: None, Some(name)
None == <<>>
Some(name) == <<name>>

\* the name field of a node that has no child of the kind its extractor takes
\* the name from
NoName == ""

\* find_child_text(node, kind, source) for the name of a Rust or Python item
name_child(node) == IF node.name = NoName THEN None ELSE Some(node.name)

\* find_child_text(node, kind, source): the text of the first direct child of
\* that kind
find_child_text(node, kind) ==
    LET hits == SelectSeq(node.children, LAMBDA child : child.kind = kind)
    IN IF hits = <<>> THEN None ELSE Some(hits[1].name)

\* variant: the impl symbol gets the bare name of the type
impl_name_bare(name) == name

\* format!("impl {name}") on the names of the model
impl_name(name) ==
    CASE name = "impl" -> "impl impl"
      [] name = "a" -> "impl a"
      [] name = "b" -> "impl b"

\* Result<Vec<Symbol>>
Ok(syms) == [ok |-> TRUE, symbols |-> syms]
Err == [ok |-> FALSE, symbols |-> <<>>]

\* the lines of a node before its first child: none for the root of a file
HeaderLines(node) == IF node.kind = "source_file" THEN 0 ELSE 1

\* node kinds with an arm in traverse_rust_node, named by their SymbolKind:
\* function_item, struct_item, enum_item, trait_item, impl_item, const_item or
\* static_item, mod_item
RustItemKinds == {"Function", "Struct", "Enum", "Trait", "Impl", "Constant", "Module"}

\* the name the extract_rust_* function of the node's kind gives the symbol:
\* None when it returns Err(.. missing name)
rust_symbol_name(node) ==
    IF node.kind = "Impl"
    THEN Some(impl_name(IF name_child(node) = None THEN "impl" ELSE node.name))
    ELSE name_child(node)

\* Symbol { name, kind, content, file_path, start_line, end_line, context } of
\* a node that starts at the given row of the parsed text: start_position().row
\* + 1 and end_position().row + 1; a function_item with a context is a Method
Symbol(node, row, file_path, context) ==
    [name |-> rust_symbol_name(node)[1],
     kind |-> IF node.kind = "Function" /\ context # None THEN "Method"
              ELSE node.kind,
     content |-> node,
     file_path |-> file_path,
     start_line |-> row + 1, end_line |-> row + NodeLines(node),
     context |-> context]

\* traverse_rust_node: the symbol of the node is pushed, then the children are
\* traversed (those of a struct_item or impl_item with its name as context),
\* so the symbols of all nesting levels end up in one flat list; an item with
\* no name makes its extractor, and with it the traversal, return Err
\* variant: no item hands its name down
rust_child_context_inherited(node, context) == context

\* the context the children of a node are traversed with
rust_child_context(node, context) ==
    IF node.kind \in {"Struct", "Impl"} THEN rust_symbol_name(node) ELSE context

RECURSIVE traverse_rust_node(_, _, _, _), traverse_children(_, _, _, _)
traverse_rust_node(node, row, file_path, context) ==
    IF node.kind \in RustItemKinds /\ rust_symbol_name(node) = None THEN Err
    ELSE LET own_symbol == IF node.kind \in RustItemKinds
                           THEN <<Symbol(node, row, file_path, context)>>
                           ELSE <<>>
             below == traverse_children(node.children, row + HeaderLines(node),
                                        file_path, rust_child_context(node, context))
         IN IF below.ok THEN Ok(own_symbol \o below.symbols) ELSE Err
traverse_children(children, row, file_path, context) ==
    IF children = <<>> THEN Ok(<<>>)
    ELSE LET first == traverse_rust_node(Head(children), row, file_path, context)
             others == traverse_children(Tail(children),
                                         row + NodeLines(Head(children)),
                                         file_path, context)
         IN IF first.ok /\ others.ok THEN Ok(first.symbols \o others.symbols)
            ELSE Err

\* extract_python_function, extract_python_class
python_symbol(node, row, file_path, context) ==
    [name |-> node.name,
     kind |-> IF node.kind = "class_definition" THEN "Class"
              ELSE IF context # None THEN "Method" ELSE "Function",
     content |-> node,
     file_path |-> file_path,
     start_line |-> row + 1, end_line |-> row + NodeLines(node),
     context |-> context]

PythonItemKinds == {"function_definition", "class_definition"}

\* traverse_python_node: the children of a class_definition are traversed with
\* the name of the class as context
RECURSIVE traverse_python_node(_, _, _, _), traverse_python_children(_, _, _, _)
traverse_python_node(node, row, file_path, context) ==
    IF node.kind \in PythonItemKinds /\ name_child(node) = None THEN Err
    ELSE LET own_symbol == IF node.kind \in PythonItemKinds
                           THEN <<python_symbol(node, row, file_path, context)>>
                           ELSE <<>>
             below == traverse_python_children(
                          node.children, row + HeaderLines(node), file_path,
                          IF node.kind = "class_definition"
                          THEN Some(node.name) ELSE context)
         IN IF below.ok THEN Ok(own_symbol \o below.symbols) ELSE Err
traverse_python_children(children, row, file_path, context) ==
    IF children = <<>> THEN Ok(<<>>)
    ELSE LET first == traverse_python_node(Head(children), row, file_path, context)
             others == traverse_python_children(Tail(children),
                                                row + NodeLines(Head(children)),
                                                file_path, context)
         IN IF first.ok /\ others.ok THEN Ok(first.symbols \o others.symbols)
            ELSE Err

\* extract_go_receiver_type: the first parameter_list child that has a
\* type_identifier among its own children gives the receiver type
extract_go_receiver_type(node) ==
    LET lists == SelectSeq(node.children,
                           LAMBDA child : /\ child.kind = "parameter_list"
                                          /\ find_child_text(child, "type_identifier") # None)
    IN IF lists = <<>> THEN None
       ELSE find_child_text(lists[1], "type_identifier")

\* the name extract_go_function, extract_go_method and extract_go_variable
\* find: None when they return Err(.. missing name)
go_symbol_name(node) ==
    CASE node.kind = "function_declaration" -> find_child_text(node, "identifier")
      [] node.kind = "method_declaration" ->
            IF find_child_text(node, "field_identifier") # None
            THEN find_child_text(node, "field_identifier")
            ELSE find_child_text(node, "identifier")
      [] OTHER ->
            LET specs == SelectSeq(node.children,
                             LAMBDA child : /\ child.kind \in {"var_spec", "const_spec"}
                                            /\ find_child_text(child, "identifier") # None)
            IN IF specs = <<>> THEN None
               ELSE find_child_text(specs[1], "identifier")

\* extract_go_function, extract_go_method, extract_go_variable
go_symbol(node, row, file_path, context) ==
    [name |-> go_symbol_name(node)[1],
     kind |-> CASE node.kind = "function_declaration" -> "Function"
                [] node.kind = "method_declaration" -> "Method"
                [] node.kind = "const_declaration" -> "Constant"
                [] OTHER -> "Variable",
     content |-> node,
     file_path |-> file_path,
     start_line |-> row + 1, end_line |-> row + NodeLines(node),
     context |-> IF node.kind = "method_declaration"
                    /\ extract_go_receiver_type(node) # None
                 THEN extract_go_receiver_type(node) ELSE context]

\* node kinds with an arm in traverse_go_node that the files of the model hold
\* (they hold no type_declaration)
GoItemKinds == {"function_declaration", "method_declaration",
                "const_declaration", "var_declaration"}

\* traverse_go_node: every arm pushes and goes on with the inherited context
RECURSIVE traverse_go_node(_, _, _, _), traverse_go_children(_, _, _, _)
traverse_go_node(node, row, file_path, context) ==
    IF node.kind \in GoItemKinds /\ go_symbol_name(node) = None THEN Err
    ELSE LET own_symbol == IF node.kind \in GoItemKinds
                           THEN <<go_symbol(node, row, file_path, context)>>
                           ELSE <<>>
             below == traverse_go_children(node.children, row + HeaderLines(node),
                                           file_path, context)
         IN IF below.ok THEN Ok(own_symbol \o below.symbols) ELSE Err
traverse_go_children(children, row, file_path, context) ==
    IF children = <<>> THEN Ok(<<>>)
    ELSE LET first == traverse_go_node(Head(children), row, file_path, context)
             others == traverse_go_children(Tail(children),
                                            row + NodeLines(Head(children)),
                                            file_path, context)
         IN IF first.ok /\ others.ok THEN Ok(first.symbols \o others.symbols)
            ELSE Err

\* SupportedLanguage::from_extension on the extension of the path
from_extension(file_path) ==
    CASE file_path.name = "a.rs" -> Some("Rust")
      [] file_path.name = "b.py" -> Some("Python")
      [] file_path.name = "c.go" -> Some("Go")
      [] OTHER -> None

\* the traversal of the tree of a text from a row, by language
traverse_from(text, row, file_path, language) ==
    CASE language = "Rust" -> traverse_rust_node(text, row, file_path, None)
      [] language = "Python" -> traverse_python_node(text, row, file_path, None)
      [] language = "Go" -> traverse_go_node(text, row, file_path, None)

\* extract_symbols(&tree, &text, file_path, &language): the text is parsed from
\* its first row and with no context, whatever file it was cut from
extract_symbols(text, file_path, language) == traverse_from(text, 0, file_path, language)

\* parse_file of a file whose first item starts at row first
parse_file(text, first, file_path) ==
    IF from_extension(file_path) = None THEN Err
    ELSE traverse_from(text, first, file_path, from_extension(file_path)[1])

symbol_size(symbol) == symbol.end_line - symbol.start_line + 1

\* variant: the size is one line short
create_chunk_from_symbol_short(symbol, depth, is_split) ==
    [file_path |-> symbol.file_path,
     start_line |-> symbol.start_line,
     end_line |-> symbol.end_line,
     symbol_name |-> symbol.name,
     symbol_kind |-> symbol.kind,
     context |-> symbol.context,
     chunk_metadata |->
        [is_split |-> is_split,
         original_size_lines |-> symbol.end_line - symbol.start_line,
         chunk_depth |-> depth,
         is_container |-> FALSE]]

\* create_chunk_from_symbol(symbol, depth, is_split)
create_chunk_from_symbol(symbol, depth, is_split) ==
    [file_path |-> symbol.file_path,
     start_line |-> symbol.start_line,
     end_line |-> symbol.end_line,
     symbol_name |-> symbol.name,
     symbol_kind |-> symbol.kind,
     context |-> symbol.context,
     chunk_metadata |->
        [is_split |-> is_split,
         original_size_lines |-> symbol.end_line - symbol.start_line + 1,
         chunk_depth |-> depth,
         is_container |-> FALSE]]

\* variant: the container chunk is put at the depth of the sub-symbols
create_container_chunk_at_child_depth(symbol, depth, sub_symbols) ==
    [file_path |-> symbol.file_path,
     start_line |-> symbol.start_line,
     end_line |-> symbol.end_line,
     symbol_name |-> symbol.name,
     symbol_kind |-> symbol.kind,
     context |-> symbol.context,
     chunk_metadata |->
        [is_split |-> TRUE,
         original_size_lines |-> symbol.end_line - symbol.start_line + 1,
         chunk_depth |-> depth + 1,
         is_container |-> TRUE]]

\* create_container_chunk(symbol, depth, &valid_sub_symbols)
create_container_chunk(symbol, depth, sub_symbols) ==
    [file_path |-> symbol.file_path,
     start_line |-> symbol.start_line,
     end_line |-> symbol.end_line,
     symbol_name |-> symbol.name,
     symbol_kind |-> symbol.kind,
     context |-> symbol.context,
     chunk_metadata |->
        [is_split |-> TRUE,
         original_size_lines |-> symbol.end_line - symbol.start_line + 1,
         chunk_depth |-> depth,
         is_container |-> TRUE]]

ContainerKinds == {"Impl", "Module", "Struct", "Trait"}

\* variant: one sub-symbol is enough
should_create_container_chunk_for_one(symbol, sub_symbols) ==
    symbol.kind \in ContainerKinds /\ sub_symbols # <<>>

\* should_create_container_chunk(symbol, &valid_sub_symbols)
should_create_container_chunk(symbol, sub_symbols) ==
    /\ symbol.kind \in ContainerKinds
    /\ sub_symbols # <<>>
    /\ Len(sub_symbols) > 1

\* the filter of try_recursive_chunking: not too small, not named as the parent
valid_sub_symbols(symbol, sub_symbols, opts) ==
    SelectSeq(sub_symbols,
              LAMBDA sub_sym :
                  /\ symbol_size(sub_sym) >= opts.min_lines_per_chunk
                  /\ sub_sym.name # symbol.name)

\* variant: the ceiling is one level too deep
depth_ceiling_reached_late(depth, opts) == depth > opts.max_recursion_depth

\* if depth >= self.options.max_recursion_depth
depth_ceiling_reached(depth, opts) == depth >= opts.max_recursion_depth

\* variant: an empty list of sub-chunks is passed on
sub_chunks_or_nothing(symbol, depth, r) ==
    IF r.ok THEN r.chunks ELSE <<create_chunk_from_symbol(symbol, depth, TRUE)>>

\* variant: the fallback chunk is not marked as split
sub_chunks_or_unsplit(symbol, depth, r) ==
    IF r.ok /\ r.chunks # <<>> THEN r.chunks
    ELSE <<create_chunk_from_symbol(symbol, depth, FALSE)>>

\* variant: an error of the re-parse is not absorbed, the symbol gives no chunk
sub_chunks_or_error(symbol, depth, r) ==
    IF ~r.ok THEN <<>>
    ELSE IF r.chunks # <<>> THEN r.chunks
    ELSE <<create_chunk_from_symbol(symbol, depth, TRUE)>>

\* the match on try_recursive_chunking's result: Ok(sub_chunks) if not empty,
\* else (Ok(_) or Err(e)) one chunk of the whole symbol, is_split = true
sub_chunks_or_fallback(symbol, depth, r) ==
    IF r.ok /\ r.chunks # <<>> THEN r.chunks
    ELSE <<create_chunk_from_symbol(symbol, depth, TRUE)>>

RECURSIVE chunk_symbol_recursive(_, _, _, _), try_recursive_chunking(_, _, _, _),
          chunk_sub_symbols(_, _, _, _)

\* chunk_symbol_recursive(symbol, depth)
chunk_symbol_recursive(symbol, depth, opts, bad) ==
    IF depth_ceiling_reached(depth, opts)
    THEN <<create_chunk_from_symbol(symbol, depth, FALSE)>>
    ELSE IF symbol_size(symbol) <= opts.max_lines_per_chunk
    THEN <<create_chunk_from_symbol(symbol, depth, FALSE)>>
    ELSE sub_chunks_or_fallback(symbol, depth,
                                try_recursive_chunking(symbol, depth, opts, bad))

\* try_recursive_chunking(symbol, depth): Err when the text of the symbol cannot
\* be parsed again (unsupported extension, no parser, parse or extraction error)
try_recursive_chunking(symbol, depth, opts, bad) ==
    LET language == from_extension(symbol.file_path)
        extracted == extract_symbols(symbol.content, symbol.file_path, language[1])
        sub_symbols == extracted.symbols
        valid == valid_sub_symbols(symbol, sub_symbols, opts)
        all == chunk_sub_symbols(valid, depth + 1, opts, bad)
    IN IF symbol.name \in bad \/ language = None \/ ~extracted.ok
       THEN [ok |-> FALSE, chunks |-> <<>>]
       ELSE IF sub_symbols = <<>> \/ valid = <<>>
       THEN [ok |-> TRUE, chunks |-> <<>>]
       ELSE [ok |-> TRUE,
             chunks |-> IF should_create_container_chunk(symbol, valid)
                        THEN <<create_container_chunk(symbol, depth, valid)>> \o all
                        ELSE all]

\* for sub_symbol in &valid_sub_symbols: all_chunks.extend(..)
chunk_sub_symbols(subs, depth, opts, bad) ==
    IF subs = <<>> THEN <<>>
    ELSE chunk_symbol_recursive(Head(subs), depth, opts, bad)
            \o chunk_sub_symbols(Tail(subs), depth, opts, bad)

\* chunk_symbols(&symbols): every symbol is decomposed from depth 0
chunk_symbols(syms, opts, bad) == chunk_sub_symbols(syms, 0, opts, bad)

InitChunker ==
    /\ SyncIdle
    /\ PointIdle
    /\ EmbedIdle
    /\ source \in SourceNodes
    /\ source_path = "a.rs"
    /\ parsed = "none"
    /\ first_row = 4
    /\ options \in ChunkingOptions
    /\ failing \in {{}, {"b", "impl b"}}
    /\ symbols = <<>>
    /\ per_symbol = <<>>
    /\ chunks = <<>>

\* the file is parsed and, unless parse_file returned Err, its symbols are
\* chunked hierarchically
ChunkSymbols ==
    /\ source # <<>>
    /\ parsed = "none"
    /\ LET r == parse_file(source, first_row, WalkPath(source_path))
       IN IF r.ok
          THEN /\ parsed' = "Ok"
               /\ symbols' = r.symbols
               /\ per_symbol' = [i \in DOMAIN r.symbols |->
                                    chunk_symbol_recursive(r.symbols[i], 0, options,
                                                           failing)]
               /\ chunks' = chunk_symbols(r.symbols, options, failing)
          ELSE /\ parsed' = "Err"
               /\ UNCHANGED <<symbols, per_symbol, chunks>>
    /\ UNCHANGED <<source, source_path, first_row, options, failing, syncVars,
                   pointVars, embedVars>>

NextChunker == ChunkSymbols

SpecChunker == InitChunker /\ [][NextChunker]_vars

\* ---- extraction by language (parse_file, then chunking with the defaults) ----

\* ChunkingOptions::default() (enable_hierarchical is not read by the chunker)
DefaultChunkingOptions ==
    [max_lines_per_chunk |-> 200, min_lines_per_chunk |-> 5, max_recursion_depth |-> 5]

\* the root of the tree of a file
SourceFile(items) == [name |-> NoName, kind |-> "source_file", own |-> 0, children |-> items]

\* a one-line item with nothing nested
Item(name, kind) == [name |-> name, kind |-> kind, own |-> 1, children |-> <<>>]

\* the names of an item and of an item nested in it
NamePairs == {pair \in SymbolNames \X SymbolNames : pair[1] # pair[2]}

\* what a Rust item can hold: a function, or a function with a nested function
RustNested ==
    {<<Item(n, "Function")>> : n \in SymbolNames}
        \cup {<<Holder(pair[1], "Function", <<Item(pair[2], "Function")>>)>> :
                pair \in NamePairs}

\* the items of a Rust file: fn, struct, and impl (of a named type, or of a type
\* that is no type_identifier), mod, trait and fn with nested items
RustItems ==
    {Item(n, k) : n \in SymbolNames, k \in {"Function", "Struct"}}
        \cup {Holder(n, k, c) : n \in SymbolNames,
                                k \in {"Impl", "Module", "Trait", "Function"},
                                c \in RustNested}
        \cup {Holder(NoName, "Impl", c) : c \in RustNested}

\* the items of a Python file: def, and class or def with nested defs or classes
PythonNested ==
    {<<Item(n, "function_definition")>> : n \in SymbolNames}
        \cup {<<Holder(pair[1], k, <<Item(pair[2], "function_definition")>>)>> :
                pair \in NamePairs,
                k \in {"function_definition", "class_definition"}}
PythonItems ==
    {Item(n, "function_definition") : n \in SymbolNames}
        \cup {Holder(n, k, c) : n \in SymbolNames,
                                k \in {"class_definition", "function_definition"},
                                c \in PythonNested}

\* nodes of the Go grammar that hold no line of their own: a leaf with its
\* text, and an inner node with its children
Token(kind, text) == [name |-> text, kind |-> kind, own |-> 0, children |-> <<>>]
Inner(kind, children) == [name |-> NoName, kind |-> kind, own |-> 0, children |-> children]

\* the receiver `(c T)` or `(c *T)`: a parameter_list of one
\* parameter_declaration that holds the name and the type
GoReceiver(type_name, pointer) ==
    Inner("parameter_list",
          <<Inner("parameter_declaration",
                  <<Token("identifier", "c"),
                    IF pointer
                    THEN Inner("pointer_type", <<Token("type_identifier", type_name)>>)
                    ELSE Token("type_identifier", type_name)>>)>>)

\* func (c T) name() {}
GoMethod(name, type_name, pointer) ==
    [name |-> NoName, kind |-> "method_declaration", own |-> 1,
     children |-> <<GoReceiver(type_name, pointer), Token("field_identifier", name),
                    Inner("parameter_list", <<>>)>>]

\* func name() {}
GoFunction(name) ==
    [name |-> NoName, kind |-> "function_declaration", own |-> 1,
     children |-> <<Token("identifier", name), Inner("parameter_list", <<>>)>>]

\* var name = .. and const name = .., and the empty groups var () and const ()
GoVariable(kind, spec_kind, names) ==
    [name |-> NoName, kind |-> kind, own |-> 1,
     children |-> [i \in DOMAIN names |->
                      Inner(spec_kind, <<Token("identifier", names[i])>>)]]

GoItems ==
    {GoFunction(n) : n \in SymbolNames}
        \cup {GoMethod(n, t, p) : n \in SymbolNames, t \in SymbolNames, p \in BOOLEAN}
        \cup {GoVariable("var_declaration", "var_spec", ns) :
                ns \in {<<>>} \cup {<<n>> : n \in SymbolNames}}
        \cup {GoVariable("const_declaration", "const_spec", ns) :
                ns \in {<<>>} \cup {<<n>> : n \in SymbolNames}}

\* a file of one or two items, with the name of the file
ExtractSources ==
    {<<"a.rs", SourceFile(c)>> : c \in OneOrTwo(RustItems)}
        \cup {<<"b.py", SourceFile(c)>> : c \in OneOrTwo(PythonItems)}
        \cup {<<"c.go", SourceFile(c)>> : c \in OneOrTwo(GoItems)}

InitExtract ==
    /\ SyncIdle
    /\ PointIdle
    /\ EmbedIdle
    /\ \E file \in ExtractSources : source_path = file[1] /\ source = file[2]
    /\ parsed = "none"
    /\ first_row = 0
    /\ options = DefaultChunkingOptions
    /\ failing = {}
    /\ symbols = <<>>
    /\ per_symbol = <<>>
    /\ chunks = <<>>

SpecExtract == InitExtract /\ [][NextChunker]_vars

\* ---- simple chunking (create_simple_chunks_from_symbols) ----

\* the chunk of one symbol in the closure of create_simple_chunks_from_symbols
simple_chunk(symbol) ==
    [file_path |-> symbol.file_path,
     start_line |-> symbol.start_line,
     end_line |-> symbol.end_line,
     symbol_name |-> symbol.name,
     symbol_kind |-> symbol.kind,
     context |-> symbol.context,
     chunk_metadata |-> [is_split |-> FALSE,
                         original_size_lines |-> symbol.end_line - symbol.start_line + 1,
                         chunk_depth |-> 0,
                         is_container |-> FALSE]]

\* variant: the chunks are collected in reverse order
create_simple_chunks_reversed(syms) ==
    [i \in DOMAIN syms |-> simple_chunk(syms[Len(syms) + 1 - i])]

\* symbols.iter().map(..).collect()
create_simple_chunks_from_symbols(syms) ==
    [i \in DOMAIN syms |-> simple_chunk(syms[i])]

\* the symbols of one file are the input; no chunker and no options exist
InitSimple ==
    /\ SyncIdle
    /\ PointIdle
    /\ EmbedIdle
    /\ source \in SourceNodes
    /\ source_path = "a.rs"
    /\ parsed = "Ok"
    /\ first_row = 4
    /\ options = <<>>
    /\ failing = {}
    /\ symbols = parse_file(source, first_row, WalkPath(source_path)).symbols
    /\ per_symbol = <<>>
    /\ chunks = <<>>

CreateSimpleChunks ==
    /\ options = <<>>
    /\ symbols # <<>>
    /\ chunks = <<>>
    /\ chunks' = create_simple_chunks_from_symbols(symbols)
    /\ UNCHANGED <<source, source_path, parsed, first_row, options, failing,
                   symbols, per_symbol, syncVars, pointVars, embedVars>>

NextSimple == CreateSimpleChunks

SpecSimple == InitSimple /\ [][NextSimple]_vars

\* ---- embedding (embed_chunks, embed_texts) ----

MaxChunks == 3

ChunkTexts == {1, 2}

\* a chunk as far as embedding reads it: its symbol and its content
EmbedChunks == [symbol_name : SymbolNames, content : ChunkTexts]

ChunkSeqs == UNION {[1..n -> EmbedChunks] : n \in 0..MaxChunks}

BatchSizes == 1..MaxChunks

\* the vector the provider computes for a text
ProviderVector(text) == [of |-> text]

\* data of an EmbeddingResponse: one entry per input text, index counted from 0
ResponseData(texts) ==
    [i \in DOMAIN texts |-> [index |-> i - 1, embedding |-> ProviderVector(texts[i])]]

IndexOrders(n) == {f \in [1..n -> 1..n] : \A i, j \in 1..n : f[i] = f[j] => i = j}

\* the response bodies the provider may send for a request: the data entries
\* in any order, all of them or all but one
ProviderResponses(texts) ==
    LET complete == {[i \in DOMAIN texts |-> ResponseData(texts)[f[i]]] :
                        f \in IndexOrders(Len(texts))}
    IN complete \cup {SubSeq(data, 1, Len(data) - 1) : data \in complete}

\* Vec::sort_by_key(|data| data.index): a stable sort
RECURSIVE sort_by_index(_)
InsertByIndex(sorted, d) ==
    LET k == Cardinality({j \in DOMAIN sorted : sorted[j].index <= d.index})
    IN SubSeq(sorted, 1, k) \o <<d>> \o SubSeq(sorted, k + 1, Len(sorted))
sort_by_index(data) ==
    IF data = <<>> THEN <<>>
    ELSE InsertByIndex(sort_by_index(SubSeq(data, 1, Len(data) - 1)), data[Len(data)])

\* variant: the response is taken in the order the provider listed it
embed_texts_unsorted(data) == [i \in DOMAIN data |-> data[i].embedding]

\* embed_texts after a successful response: sort by index, keep the vectors
embed_texts(data) ==
    LET embeddings == sort_by_index(data)
    IN [i \in DOMAIN embeddings |-> embeddings[i].embedding]

Min(a, b) == IF a < b THEN a ELSE b

\* the chunks of the batch that the loop sends next
current_batch == SubSeq(to_embed, consumed + 1, Min(consumed + batch_size, Len(to_embed)))

batch_texts == [i \in DOMAIN current_batch |-> current_batch[i].content]

EmbeddedChunk(chunk, embedding) == [chunk |-> chunk, embedding |-> embedding]

InitEmbedChunks ==
    /\ SyncIdle
    /\ PointIdle
    /\ ChunkerIdle
    /\ to_embed \in ChunkSeqs
    /\ batch_size \in BatchSizes
    /\ consumed = 0
    /\ embedded_chunks = <<>>
    /\ embed_pc = "call"
    /\ reordered = FALSE

\* embed_chunks is entered: no chunk gives Ok(vec![]) at once
EmbedChunksEnter ==
    /\ embed_pc = "call"
    /\ embed_pc' = IF to_embed = <<>> THEN "Ok" ELSE "loop"
    /\ UNCHANGED <<to_embed, batch_size, consumed, embedded_chunks, reordered,
                   syncVars, pointVars, chunkVars>>

\* one batch is sent, the provider answers with status success, and the vectors
\* are zipped with the chunks of the batch
EmbedBatch ==
    /\ embed_pc = "loop"
    /\ \E data \in ProviderResponses(batch_texts) :
          LET embeddings == embed_texts(data)
          IN IF Len(embeddings) # Len(current_batch)
             THEN /\ embed_pc' = "Err"
                  /\ UNCHANGED <<consumed, embedded_chunks, reordered>>
             ELSE /\ embedded_chunks' = embedded_chunks \o
                        [i \in DOMAIN current_batch |->
                            EmbeddedChunk(current_batch[i], embeddings[i])]
                  /\ consumed' = consumed + Len(current_batch)
                  /\ embed_pc' = IF consumed + Len(current_batch) = Len(to_embed)
                                 THEN "Ok" ELSE "loop"
                  /\ reordered' = (reordered \/ data # ResponseData(batch_texts))
    /\ UNCHANGED <<to_embed, batch_size, syncVars, pointVars, chunkVars>>

\* the request of a batch fails or the provider answers with an error status
EmbedRequestFails ==
    /\ embed_pc = "loop"
    /\ embed_pc' = "Err"
    /\ UNCHANGED <<to_embed, batch_size, consumed, embedded_chunks, reordered,
                   syncVars, pointVars, chunkVars>>

NextEmbed == EmbedChunksEnter \/ EmbedBatch \/ EmbedRequestFails

SpecEmbed == InitEmbedChunks /\ [][NextEmbed]_vars

(***************************************************************************)
(* Properties                                                              *)
(***************************************************************************)
InitPcs == {"init_check", "init_create", "init_parse", "init_embed",
            "init_upsert", "init_save"}
ReconcilePcs == {"delete", "process", "save"}

\* a run that took the reconciling branch, running or just returned
Reconciling == mode = "reconcile" /\ pc # "idle"
\* a run that loaded a snapshot and classified the tree
Diffed == mode \in {"reconcile", "uptodate"} /\ pc # "idle"

CallsOf(op) == {i \in DOMAIN calls : calls[i].op = op}

\* the files both maps know with the same content hash
Unchanged ==
    {k \in DOMAIN saved_state \cap DOMAIN current_file_states :
        saved_state[k].content_md5 = current_file_states[k].content_md5}

\* C1: the second of two runs in a row with no file change in between issues
\* no delete and no upsert call and leaves the snapshot file as it was,
\* whatever branch the first run took.
C1_SecondRunIsNoOp ==
    (pc # "idle" /\ prevQuiet /\ ~edited) =>
        /\ CallsOf("delete_points") = {}
        /\ CallsOf("upsert_points") = {}
        /\ snapshot = snapAtStart

\* C1, where the index file is found: the same statement for runs that see
\* <root>/.rua.index.json
C1_SecondRunIsNoOpWhenIndexFound ==
    (pc # "idle" /\ prevQuiet /\ ~edited /\ dotIndex) =>
        /\ calls = <<>>
        /\ snapshot = snapAtStart
        /\ mode = "uptodate" \/ failedAt = "set_current_dir"

\* C2: in a reconciling run the one delete_points call for the deleted and
\* modified files has been issued and has succeeded before upsert_points is
\* issued, and no delete follows the upsert.
C2_DeleteBeforeUpsert ==
    Reconciling =>
        \A i \in CallsOf("upsert_points") :
            /\ (deleted_files \cup modified_files # {}) =>
                  \E j \in 1..(i - 1) :
                      calls[j] = Call("delete_points",
                                      deleted_files \cup modified_files, TRUE)
            /\ \A j \in CallsOf("delete_points") : j < i

C2_Witness ==
    /\ Reconciling
    /\ Len(calls) = 2
    /\ calls[1].op = "delete_points"
    /\ calls[2].op = "upsert_points"
    /\ modified_files \cap calls[2].paths # {}

\* C3: a reconciling run rewrites the snapshot only as its last step, after
\* the delete and the upsert both succeeded; while it runs, and when it
\* returns an error, the persisted snapshot is the one it loaded.
C3_SnapshotOnlyAfterBothSteps ==
    Reconciling =>
        /\ (pc \in ReconcilePcs \/ result = "Err") => snapshot = snapAtStart
        /\ snapshot # snapAtStart =>
              /\ pc = "done" /\ result = "Ok"
              /\ \A i \in DOMAIN calls : calls[i].ok
              /\ (deleted_files \cup modified_files # {}) => CallsOf("delete_points") # {}
              /\ todo = {} /\ attempted = added_files \cup modified_files
              /\ all_chunks # {} => CallsOf("upsert_points") # {}

C3_Witness ==
    /\ Reconciling
    /\ pc = "done" /\ result = "Err" /\ failedAt = "upsert_points"
    /\ CallsOf("delete_points") # {}
    /\ snapshot = snapAtStart

\* C4: when init_session fails after it created the collection (and its
\* cleanup call goes through), the collection is gone and no snapshot is
\* left persisted under the root.
C4_FailedInitLeavesNothing ==
    (pc = "done" /\ mode = "init" /\ result = "Err" /\ created
        /\ cleanup = "ok" /\ ~snapAtStart.exists) =>
        /\ ~collection.exists
        /\ ~snapshot.exists

\* C5: once init_session has succeeded for the root, no later run
\* initializes again: it finds the snapshot and takes the diff branch.
C5_NeverInitializesAgain == everInitOk => pc \notin InitPcs

\* C6: the classification is exact: added = in current and not in saved,
\* modified = in both with different content_md5, deleted = in saved and not
\* in current; the three sets are disjoint and a path in both maps with the
\* same content_md5 is in none.
C6_ClassificationExact ==
    Diffed =>
        /\ \A k \in Paths :
              /\ k \in added_files <=>
                    (k \in DOMAIN current_file_states /\ k \notin DOMAIN saved_state)
              /\ k \in modified_files <=>
                    /\ k \in DOMAIN current_file_states \cap DOMAIN saved_state
                    /\ current_file_states[k].content_md5 # saved_state[k].content_md5
              /\ k \in deleted_files <=>
                    (k \in DOMAIN saved_state /\ k \notin DOMAIN current_file_states)
        /\ added_files \cap modified_files = {}
        /\ added_files \cap deleted_files = {}
        /\ modified_files \cap deleted_files = {}
        /\ Unchanged \cap (added_files \cup modified_files \cup deleted_files) = {}

C6_Witness ==
    /\ Diffed
    /\ added_files # {}
    /\ modified_files # {}

\* C7: a file whose last_modified differs from the saved one while its
\* content_md5 is equal is not classified as changed: it is in no delete
\* filter, is not handed to chunk_codefile, is in no upsert, and when nothing
\* else differs the run is up to date and the snapshot is not rewritten.
C7_TouchedIsUnchanged ==
    Diffed =>
        LET touched == {k \in Unchanged :
                           saved_state[k].last_modified
                               # current_file_states[k].last_modified}
        IN /\ touched \cap (added_files \cup modified_files \cup deleted_files) = {}
           /\ touched \cap attempted = {}
           /\ \A i \in DOMAIN calls : touched \cap calls[i].paths = {}
           /\ (Unchanged = DOMAIN saved_state /\ Unchanged = DOMAIN current_file_states) =>
                 /\ mode = "uptodate"
                 /\ calls = <<>>
                 /\ snapshot = snapAtStart

C7_Witness ==
    /\ Diffed
    /\ pc = "done"
    /\ mode = "uptodate"
    /\ \E k \in Unchanged :
          saved_state[k].last_modified # current_file_states[k].last_modified

\* C8: the diff of a snapshot against itself is empty, for every snapshot the
\* program persists, and a run whose current state equals the loaded one
\* finds nothing.
C8_DiffOfSelfIsEmpty ==
    /\ LET S == snapshot.file_states
       IN /\ AddedFiles(S, S) = {}
          /\ ModifiedFiles(S, S) = {}
          /\ DeletedFiles(S, S) = {}
    /\ (Diffed /\ saved_state = current_file_states) =>
          added_files \cup modified_files \cup deleted_files = {}

C8_Witness ==
    /\ Diffed
    /\ saved_state = current_file_states
    /\ DOMAIN saved_state = {StripPrefix(WalkPath(f)) : f \in Files}

\* C9: the files a reconciling run hands to extraction, chunking and upsert
\* are those of added + modified and no others: an unchanged file and a
\* deleted file are never re-indexed.
C9_ReindexSetIsAddedAndModified ==
    Reconciling =>
        /\ attempted \subseteq added_files \cup modified_files
        /\ pc = "process" => attempted \cup todo = added_files \cup modified_files
        /\ (pc = "save" \/ (pc = "done" /\ failedAt # "delete_points")) =>
              attempted = added_files \cup modified_files
        /\ {StripPrefix(c.file_path) : c \in all_chunks} \subseteq attempted
        /\ \A i \in CallsOf("upsert_points") :
              calls[i].paths \subseteq added_files \cup modified_files
        /\ (pc = "save" /\ skipped = {}) =>
              {StripPrefix(c.file_path) : c \in all_chunks}
                  = added_files \cup modified_files
        /\ attempted \cap Unchanged = {}
        /\ attempted \cap deleted_files = {}

C9_Witness ==
    /\ Reconciling
    /\ pc = "save"
    /\ added_files # {}
    /\ Unchanged # {}
    /\ CallsOf("upsert_points") # {}

\* C10 as stated: in a reconciling run a failure to chunk, embed or upsert
\* is skipped, so no run (here: of a root that was initialized successfully)
\* returns the error of one of these steps.
C10_ChunkAndUpsertFailuresSkipped ==
    (Reconciling /\ everInitOk /\ pc = "done" /\ result = "Err") =>
        failedAt \notin {"chunk_codefile", "upsert_points"}

\* C10 amended: a chunk_codefile failure (chunking or embedding of one file)
\* is skipped: the loop still hands every file of the re-index set to
\* chunk_codefile, the chunks of the others are kept, and no run returns that
\* error; a failure of the one bulk upsert call is returned, with the
\* snapshot not rewritten.
C10_ChunkFailureSkippedUpsertFailureReturned ==
    Reconciling =>
        /\ (pc = "done" /\ result = "Err") =>
              failedAt \in {"delete_points", "upsert_points", "to_file"}
        /\ skipped \subseteq attempted
        /\ (pc = "save" \/ (pc = "done" /\ failedAt # "delete_points")) =>
              /\ attempted = added_files \cup modified_files
              /\ {StripPrefix(c.file_path) : c \in all_chunks} = attempted \ skipped
        /\ \A i \in CallsOf("upsert_points") :
              ~calls[i].ok =>
                  /\ pc = "done" /\ result = "Err" /\ failedAt = "upsert_points"
                  /\ snapshot = snapAtStart

C10_Witness ==
    /\ Reconciling
    /\ pc = "done" /\ result = "Ok"
    /\ skipped # {}
    /\ \E i \in CallsOf("upsert_points") :
          calls[i].ok /\ calls[i].paths \ skipped # {}

\* the points the store holds for the file of the given name
PointsOfFile(f) == {p \in collection.points : p.file_path.name = f}

\* a reconciling run that returned Ok
ReconciledOk == Reconciling /\ pc = "done" /\ result = "Ok"

\* C11: a file of the re-index set whose chunks did not reach the store in a
\* reconciling run (chunk_codefile failed and the file was skipped) is not
\* recorded in the snapshot the run writes with the fingerprint it has now,
\* so that the next run classifies it as added or modified again.
C11_SkippedFileIsRetried ==
    (ReconciledOk /\ everInitOk /\ ~edited) =>
        \A k \in skipped :
            ~(/\ k \in DOMAIN snapshot.file_states
              /\ snapshot.file_states[k].content_md5
                    = current_file_states[k].content_md5)

\* the points in the store that were made from the content the loaded
\* snapshot records for the file of key k, when the file has other content now
StalePointsOf(k) ==
    {p \in PointsOfFile(k.name) :
        /\ content_md5(p.content) = saved_state[k].content_md5
        /\ ~(disk[k.name].present /\ disk[k.name].content = p.content)}

\* C12: after a reconciling run returned Ok (no file edited while it ran), the
\* store holds no point made from the earlier content of a file the run
\* classified as modified and no point of a file it classified as deleted.
C12_NoStalePoints ==
    (ReconciledOk /\ ~edited) =>
        \A k \in modified_files \cup deleted_files : StalePointsOf(k) = {}

\* C12, for a loaded snapshot whose keys are relative to the root, as
\* init_session and restore_session write them: the strings of the delete
\* filter are the strings of the payloads, and no stale point is left
C12_NoStalePointsUnderRelativeKeys ==
    /\ \A p \in collection.points : ~p.file_path.abs
    /\ (ReconciledOk /\ ~edited /\ \A k \in DOMAIN saved_state : ~k.abs) =>
          /\ \A k \in modified_files \cup deleted_files : StalePointsOf(k) = {}
          /\ \A k \in deleted_files : PointsOfFile(k.name) = {}

\* the two quadruples are equal but for the symbol name
DifferOnlyInName ==
    /\ quads[1].symbol_name # quads[2].symbol_name
    /\ [quads[1] EXCEPT !.symbol_name = quads[2].symbol_name] = quads[2]

C14_DifferentQuadruplesDifferentBytes ==
    (ids # <<>> /\ quads[1] # quads[2]) => ids[1] # ids[2]

\* the file was parsed and chunked
Chunked == symbols # <<>>

Depths == 0..MaxRecursion

\* decompose(symbol, d) of the i-th extracted symbol
DecomposeAt(i, d) == chunk_symbol_recursive(symbols[i], d, options, failing)

\* the sub-symbols of a symbol that survive the filter; none when its text
\* cannot be parsed again
Survivors(symbol) ==
    IF symbol.name \in failing THEN <<>>
    ELSE valid_sub_symbols(symbol,
                           extract_symbols(symbol.content, symbol.file_path,
                                           from_extension(symbol.file_path)[1]).symbols,
                           options)

Oversized(symbol) == symbol_size(symbol) > options.max_lines_per_chunk

Range(seq) == {seq[j] : j \in DOMAIN seq}

\* the chunk is built from the symbol: its name, position and kind
BuiltFrom(c, symbol) ==
    /\ c.symbol_name = symbol.name
    /\ c.symbol_kind = symbol.kind
    /\ c.file_path = symbol.file_path
    /\ c.start_line = symbol.start_line
    /\ c.end_line = symbol.end_line

\* the container chunks that a decomposition at depth d holds for its own symbol
ContainerChunks(out, d) ==
    {c \in Range(out) :
        c.chunk_metadata.is_container /\ c.chunk_metadata.chunk_depth = d}

\* C15: decomposing a symbol from depth 0 gives at least one chunk, for every
\* symbol and every option setting.
C15_AtLeastOneChunk ==
    Chunked =>
        /\ \A i \in DOMAIN symbols : Len(per_symbol[i]) >= 1
        /\ Len(chunks) >= Len(symbols)

C15_Witness ==
    /\ Chunked
    /\ \E i \in DOMAIN symbols :
          /\ Oversized(symbols[i])
          /\ options.max_recursion_depth > 0
          /\ symbols[i].name \notin failing
          /\ Survivors(symbols[i]) = <<>>
          /\ Len(per_symbol[i]) = 1

\* C16: every chunk has chunk_depth <= max_recursion_depth, 0 included.
C16_DepthWithinCeiling ==
    \A c \in Range(chunks) :
        c.chunk_metadata.chunk_depth <= options.max_recursion_depth

C16_Witness ==
    /\ Chunked
    /\ options.max_recursion_depth = MaxRecursion
    /\ \E c \in Range(chunks) :
          /\ c.chunk_metadata.chunk_depth = options.max_recursion_depth
          /\ c.chunk_metadata.original_size_lines > options.max_lines_per_chunk

\* C17 as stated: the output for symbol s holds a container chunk for s if and
\* only if s.kind is Impl, Module, Struct or Trait and more than one
\* sub-symbol of s survives the filter.
C17_ContainerIffKindAndSurvivors ==
    Chunked =>
        \A i \in DOMAIN symbols :
            ContainerChunks(per_symbol[i], 0) # {} <=>
                /\ symbols[i].kind \in ContainerKinds
                /\ Len(Survivors(symbols[i])) > 1

\* C17 amended: decompose(s, d) holds a container chunk for s if and only if
\* s is decomposed at all (it is oversized and d is below the depth ceiling)
\* and its kind is Impl, Module, Struct or Trait and more than one sub-symbol
\* survives; there is then exactly one, built from s, and it is the first chunk.
C17_ContainerIffDecomposedKindAndSurvivors ==
    Chunked =>
        \A i \in DOMAIN symbols : \A d \in Depths :
            LET s == symbols[i]
                out == DecomposeAt(i, d)
                expected == /\ Oversized(s)
                            /\ d < options.max_recursion_depth
                            /\ s.kind \in ContainerKinds
                            /\ Len(Survivors(s)) > 1
            IN /\ ContainerChunks(out, d) # {} <=> expected
               /\ expected =>
                     /\ ContainerChunks(out, d) = {out[1]}
                     /\ BuiltFrom(out[1], s)
                     /\ \A j \in 2..Len(out) : out[j] # out[1]

C17_Witness ==
    /\ Chunked
    /\ \E i \in DOMAIN symbols :
          /\ symbols[i].kind \in ContainerKinds
          /\ Len(Survivors(symbols[i])) > 1
          /\ ~Oversized(symbols[i])
          /\ options.max_recursion_depth > 0
          /\ ContainerChunks(per_symbol[i], 0) = {}
    /\ \E i \in DOMAIN symbols : ContainerChunks(per_symbol[i], 0) # {}

\* the chunks after the first are those of the surviving sub-symbols, one
\* each and in their order, at the given depth
SubChunksInOrder(out, subs, d) ==
    /\ Len(out) = Len(subs) + 1
    /\ \A j \in DOMAIN subs :
          /\ BuiltFrom(out[j + 1], subs[j])
          /\ out[j + 1].chunk_metadata.chunk_depth = d
          /\ ~out[j + 1].chunk_metadata.is_container

\* an oversized symbol of a container kind with k > 1 surviving sub-symbols
\* that fit in one chunk each
ContainerOfSmall(symbol) ==
    /\ Oversized(symbol)
    /\ symbol.kind \in ContainerKinds
    /\ Len(Survivors(symbol)) > 1
    /\ \A sub \in Range(Survivors(symbol)) : ~Oversized(sub)

\* the first chunk is the container chunk of the symbol at depth d
ContainerFirst(out, symbol, d) ==
    /\ BuiltFrom(out[1], symbol)
    /\ out[1].chunk_metadata.chunk_depth = d
    /\ out[1].chunk_metadata.is_container
    /\ out[1].chunk_metadata.is_split

\* C18 as stated: an oversized container symbol with k > 1 surviving
\* sub-symbols that each fit in one chunk decomposes into exactly k + 1
\* chunks: the container chunk first, then the k sub-symbol chunks one level
\* deeper, in sub-symbol order (here for the decomposition from depth 0).
C18_ContainerThenSubChunks ==
    Chunked =>
        \A i \in DOMAIN symbols :
            ContainerOfSmall(symbols[i]) =>
                /\ ContainerFirst(per_symbol[i], symbols[i], 0)
                /\ SubChunksInOrder(per_symbol[i], Survivors(symbols[i]), 1)

\* C18 amended: the same, at every depth d below max_recursion_depth; at the
\* depth ceiling the symbol is one unsplit chunk.
C18_ContainerThenSubChunksBelowCeiling ==
    Chunked =>
        \A i \in DOMAIN symbols : \A d \in Depths :
            ContainerOfSmall(symbols[i]) =>
                LET out == DecomposeAt(i, d)
                IN IF d < options.max_recursion_depth
                   THEN /\ ContainerFirst(out, symbols[i], d)
                        /\ SubChunksInOrder(out, Survivors(symbols[i]), d + 1)
                   ELSE out = <<create_chunk_from_symbol(symbols[i], d, FALSE)>>

C18_Witness ==
    /\ Chunked
    /\ options.max_recursion_depth > 0
    /\ \E i \in DOMAIN symbols :
          /\ ContainerOfSmall(symbols[i])
          /\ Len(per_symbol[i]) = 3
          /\ per_symbol[i][1].chunk_metadata.is_container
          /\ per_symbol[i][2].chunk_metadata.original_size_lines
                # per_symbol[i][3].chunk_metadata.original_size_lines

\* C19: every chunk has original_size_lines = end_line - start_line + 1 of the
\* symbol it was built from: the symbol itself for a chunk of depth 0
\* (container or not), the sub-symbol for a chunk one level down.
C19_OriginalSizeIsOwnSpan ==
    Chunked =>
        /\ \A c \in Range(chunks) :
              c.chunk_metadata.original_size_lines = c.end_line - c.start_line + 1
        /\ \A i \in DOMAIN symbols : \A c \in Range(per_symbol[i]) :
              /\ c.chunk_metadata.chunk_depth = 0 =>
                    /\ BuiltFrom(c, symbols[i])
                    /\ c.chunk_metadata.original_size_lines = symbol_size(symbols[i])
              /\ c.chunk_metadata.chunk_depth = 1 =>
                    \E sub \in Range(Survivors(symbols[i])) :
                        /\ BuiltFrom(c, sub)
                        /\ c.chunk_metadata.original_size_lines = symbol_size(sub)

C19_Witness ==
    /\ Chunked
    /\ \E i \in DOMAIN symbols :
          /\ per_symbol[i][1].chunk_metadata.is_container
          /\ \E c \in Range(per_symbol[i]) :
                /\ c.chunk_metadata.chunk_depth = 2
                /\ c.chunk_metadata.original_size_lines
                      < per_symbol[i][1].chunk_metadata.original_size_lines

RECURSIVE Concat(_)
Concat(seqs) == IF seqs = <<>> THEN <<>> ELSE Head(seqs) \o Concat(Tail(seqs))

\* the re-parse of the symbol's own text is attempted and fails
ReparseFails(symbol, d) ==
    /\ symbol.name \in failing
    /\ Oversized(symbol)
    /\ d < options.max_recursion_depth

SimpleChunked == options = <<>> /\ chunks # <<>>

\* C22: simple chunking is one-to-one and in order: the i-th chunk is built from
\* the i-th symbol, and every chunk has chunk_depth 0, is_split false and
\* is_container false whatever the size of the symbol.
C22_SimpleChunksOneToOne ==
    SimpleChunked =>
        /\ Len(chunks) = Len(symbols)
        /\ \A i \in DOMAIN symbols :
              /\ BuiltFrom(chunks[i], symbols[i])
              /\ chunks[i].context = symbols[i].context
              /\ chunks[i].chunk_metadata.chunk_depth = 0
              /\ ~chunks[i].chunk_metadata.is_split
              /\ ~chunks[i].chunk_metadata.is_container

C22_Witness ==
    /\ SimpleChunked
    /\ Len(symbols) >= 3
    /\ \E i \in DOMAIN symbols :
          /\ symbol_size(symbols[i]) > 4
          /\ BuiltFrom(chunks[i], symbols[i])
    /\ \E i, j \in DOMAIN symbols : symbols[i] # symbols[j]

\* C23: embed_chunks returns one embedded chunk per input chunk, in input
\* order, and the vector of the i-th chunk is the one the provider computed
\* for the i-th text, also when a response lists the vectors in another order.
C23_EmbeddedInInputOrder ==
    embed_pc = "Ok" =>
        /\ Len(embedded_chunks) = Len(to_embed)
        /\ \A i \in DOMAIN to_embed :
              /\ embedded_chunks[i].chunk = to_embed[i]
              /\ embedded_chunks[i].embedding = ProviderVector(to_embed[i].content)

C23_Witness ==
    /\ embed_pc = "Ok"
    /\ reordered
    /\ Len(to_embed) = MaxChunks
    /\ batch_size = 2
    /\ to_embed[1].content # to_embed[2].content
    /\ embedded_chunks[2].embedding = ProviderVector(to_embed[2].content)

\* the function-like symbols of the file, in the order of extraction
FunctionSymbols ==
    LET found == SelectSeq(symbols, LAMBDA sym : sym.kind \in {"Function", "Method"})
    IN [i \in DOMAIN found |->
           [name |-> found[i].name, kind |-> found[i].kind, context |-> found[i].context]]

\* the node kinds that count as containers: struct, impl, class, module
ContainerNodeKinds == {"Struct", "Impl", "Module", "class_definition"}

\* the node kinds whose arm of the traversal hands the name down
ContextNodeKinds == {"Struct", "Impl", "class_definition"}

\* the name of the symbol of a container node
ContainerName(node) ==
    IF node.kind = "Impl" THEN rust_symbol_name(node)[1] ELSE node.name

\* the function-like nodes below a node in source order, each a Method with the
\* name of the nearest enclosing container as context, or a Function with none
RECURSIVE NestedFunctions(_, _, _), NestedFunctionsOfAll(_, _, _)
NestedFunctions(node, enclosing, containers) ==
    (IF node.kind \in {"Function", "function_definition"}
     THEN <<[name |-> node.name,
             kind |-> IF enclosing = None THEN "Function" ELSE "Method",
             context |-> enclosing]>>
     ELSE <<>>)
        \o NestedFunctionsOfAll(node.children,
                                IF node.kind \in containers
                                THEN Some(ContainerName(node)) ELSE enclosing,
                                containers)
NestedFunctionsOfAll(children, enclosing, containers) ==
    IF children = <<>> THEN <<>>
    ELSE NestedFunctions(Head(children), enclosing, containers)
            \o NestedFunctionsOfAll(Tail(children), enclosing, containers)

StructWithMethod(type_name, method) ==
    SourceFile(<<Item(type_name, "Struct"),
                 Holder(type_name, "Impl", <<Item(method, "Function")>>)>>)

\* the text `impl T` for each type name T
ImplBlockOf == [a |-> "impl a", b |-> "impl b"]

\* kind, name and context of the extracted symbols
SymbolHeads ==
    [i \in DOMAIN symbols |->
        [kind |-> symbols[i].kind, name |-> symbols[i].name,
         context |-> symbols[i].context]]

\* every chunk is an unsplit chunk of depth 0 and no container
AllPlainChunks ==
    \A c \in Range(chunks) :
        /\ ~c.chunk_metadata.is_split
        /\ ~c.chunk_metadata.is_container
        /\ c.chunk_metadata.chunk_depth = 0

Nameless(item) == item.kind \in GoItemKinds /\ go_symbol_name(item) = None

\* kind and name of the symbols of the items of the file that have a name
NamedItemHeads ==
    LET named == SelectSeq(source.children, LAMBDA item : ~Nameless(item))
        found == traverse_go_children(named, 0, WalkPath(source_path), None).symbols
    IN [i \in DOMAIN found |-> [kind |-> found[i].kind, name |-> found[i].name]]

\* C26: a node with no name child of the expected kind is skipped: it gives no
\* Symbol, the extraction does not fail, and the other symbols of the file are
\* still returned.
C26_NamelessNodeSkipped ==
    (/\ source_path = "c.go"
     /\ parsed # "none"
     /\ \E i \in DOMAIN source.children : Nameless(source.children[i])) =>
        /\ parsed = "Ok"
        /\ [i \in DOMAIN symbols |-> [kind |-> symbols[i].kind, name |-> symbols[i].name]]
              = NamedItemHeads

\* the Go methods of the file in source order, each with the type its receiver
\* names, without the `*` of a pointer receiver
ReceiverTypes ==
    LET methods == SelectSeq(source.children,
                             LAMBDA item : item.kind = "method_declaration")
    IN [i \in DOMAIN methods |->
           [name |-> methods[i].children[2].name,
            context |->
               LET type == methods[i].children[1].children[1].children[2]
               IN Some(IF type.kind = "pointer_type" THEN type.children[1].name
                       ELSE type.name)]]

\* C27: a Go method with receiver (c T) or (c *T) gives a Method symbol whose
\* context is T.
C27_GoMethodContextIsReceiverType ==
    (source_path = "c.go" /\ parsed = "Ok") =>
        LET found == SelectSeq(symbols, LAMBDA sym : sym.kind = "Method")
        IN [i \in DOMAIN found |->
               [name |-> found[i].name, context |-> found[i].context]]
              = ReceiverTypes

\* the i-th symbol was decomposed: its chunks are those of its sub-symbols
Decomposed(i) ==
    /\ Oversized(symbols[i])
    /\ options.max_recursion_depth > 0
    /\ Survivors(symbols[i]) # <<>>

\* C28: the chunks that come from decomposing an oversized symbol carry
\* start_line and end_line in the coordinates of the file, inside the line
\* range of the symbol they were split from, with end_line >= start_line >= 1.
C28_SubChunkLinesInsideSymbol ==
    Chunked =>
        \A i \in DOMAIN symbols :
            Decomposed(i) =>
                \A c \in Range(per_symbol[i]) :
                    /\ c.start_line >= 1
                    /\ c.end_line >= c.start_line
                    /\ symbols[i].start_line <= c.start_line
                    /\ c.end_line <= symbols[i].end_line

\* what generate_point_id reads of a chunk
Quadruple(c) == <<c.file_path, c.start_line, c.end_line, c.symbol_name>>

\* C29: among the chunks of one file in one run (extraction of the whole file,
\* then hierarchical chunking of every extracted symbol) no two chunks share
\* (file_path, start_line, end_line, symbol_name): no sub-symbol is emitted
\* more than once.
C29_NoTwoChunksShareQuadruple ==
    Chunked =>
        \A i, j \in DOMAIN chunks :
            i # j => Quadruple(chunks[i]) # Quadruple(chunks[j])

\* an initializing run that returned Ok
InitializedOk == mode = "init" /\ pc = "done" /\ result = "Ok"

\* C30: when a file is modified while an initializing run is in progress, the
\* fingerprint the run persists for the file describes the content that was
\* chunked and upserted, or else the next run classifies the file as modified:
\* a concurrent edit is never recorded as already indexed.
C30_ConcurrentEditNotRecordedAsIndexed ==
    InitializedOk =>
        \A k \in DOMAIN snapshot.file_states :
            \/ \A p \in PointsOfFile(k.name) :
                  content_md5(p.content) = snapshot.file_states[k].content_md5
            \/ k \in ModifiedFiles(snapshot.file_states,
                                   collect_supported_file_states(disk))

====
